---- MODULE Spec2Model ----
(***************************************************************************)
(* Model of dataset_generator.py: run, generateDataset, generateLabels,    *)
(* randomizeDataset and saveDataset.                                       *)
(*                                                                         *)
(* Spec       models one invocation of run(): ratio parsing, model         *)
(*            lookup, property loading, the alignment check, the model's   *)
(*            generate, label generation, length reconciliation, shuffle,  *)
(*            split and save.                                              *)
(* SpecLabels models one call of generateLabels() statement by statement   *)
(*            (the for loop, the cursor scan, the try block).              *)
(*                                                                         *)
(* Python sequences are 0-based; TLA+ sequences are 1-based.  The cursor i *)
(* and the slice bounds keep their Python (0-based) values, so element i   *)
(* of a Python list s is s[i + 1] here.                                    *)
(***************************************************************************)
EXTENDS Integers, Sequences, FiniteSets, TLC

\* ---------------------------------------------------------------- bounds
\* longest feature / date / target sequence a dataset model returns
MaxLen == 3
\* dates are 1..MaxDate; a price series has at most MaxDate entries
MaxDate == 3
\* close prices are 1..MaxPrice
MaxPrice == 2
\* most weights in a --ratio string
MaxRatioLen == 2
\* longest loaded property series
MaxSeriesLen == 2

\* ---------------------------------------------------------------- helpers
Min(a, b) == IF a < b THEN a ELSE b

RECURSIVE SumSeq(_)
\* np.sum over a list of integers
SumSeq(s) == IF s = <<>> THEN 0 ELSE s[1] + SumSeq(Tail(s))

\* Python s[a:b] for 0 <= a, 0 <= b: both ends are clamped to len(s)
PySlice(s, a, b) ==
    LET hi == Min(b, Len(s))
        lo == Min(a, hi)
    IN  [j \in 1..(hi - lo) |-> s[lo + j]]

\* sequences over S of length lo..hi
SeqsOf(S, lo, hi) == UNION {[1..n -> S] : n \in lo..hi}

\* np.random.permutation(n): the orderings of the indices 0..n-1 (here 1..n)
permutation(n) == {p \in [1..n -> 1..n] : \A a, b \in 1..n : p[a] = p[b] => a = b}

\* ---------------------------------------------------------------- inputs
Dates == 1..MaxDate
Prices == 1..MaxPrice

\* any sequence of dates a caller may pass to generateLabels
DateSeqs == SeqsOf(Dates, 0, MaxLen)

\* the dates a dataset model hands back: chronologically ordered
ChronologicalDates ==
    {ds \in DateSeqs : \A a \in 1..Len(ds) : \A b \in 1..Len(ds) : a < b => ds[a] < ds[b]}

\* a loaded closePrice series: rows of (date, closePrice), dates strictly increasing
TickSeries ==
    {t \in SeqsOf([date : Dates, closePrice : Prices], 0, MaxDate) :
        \A a \in 1..Len(t) : \A b \in 1..Len(t) : a < b => t[a].date < t[b].date}

\* feature matrices and auxiliary targets are opaque; each is named by the
\* position the model produced it at
Features(n) == [j \in 1..n |-> j]
Targets(n) == [j \in 1..n |-> <<j>>]

\* the tokens ratio.split(':') may yield, and int() of those it accepts
Tokens == {"0", "1", "2", "x"}
IntLiteral == ("0" :> 0) @@ ("1" :> 1) @@ ("2" :> 2)
RatioArgs == SeqsOf(Tokens, 1, MaxRatioLen)

\* names of the models in the registry, in list order
models == <<"matrix", "stacked">>
ModelNames == {"matrix", "stacked", "lstm"}

LabelsTypes == {"boolean", "full"}

\* run's properties argument after split(','): the parser's default
propertyNames == <<"openPrice", "closePrice", "gasPrice">>

\* lengths of the series loadData returns, one per property name
PropertyLoads == [1..Len(propertyNames) -> 0..MaxSeriesLen]

VARIABLES
    pc,          \* position in run / generateDataset
    modelName,   \* run's model argument
    labelsType,  \* run's labels argument
    ratioArg,    \* run's ratio argument, as the tokens between the colons
    ratio,       \* the parsed ratio
    model,       \* generateDataset: index of the chosen model in models, 0 = None
    properties,  \* generateDataset: lengths of the loaded property series
    dataset,     \* the features
    dates,       \* the dates
    nextPrices,  \* the model's auxiliary targets
    labels,      \* the labels
    data,        \* run: the structure handed to saveDataset
    file,        \* the output file: <<>> or <<what was written>>
    calls,       \* the collaborators called so far
    reported,    \* the messages printed about errors and truncation
    exc,         \* the exception that ended the invocation, or "none"
    ticks,       \* generateLabels: the price series
    lab          \* generateLabels: its frame (position, cursor i, labels, dates)

vars == <<pc, modelName, labelsType, ratioArg, ratio, model, properties,
          dataset, dates, nextPrices, labels, data, file, calls, reported, exc,
          ticks, lab>>

runArgs == <<modelName, labelsType, ratioArg>>

\* run's data before line 150 / 156 assigns it
NoData == [split |-> FALSE, parts |-> <<>>]

\* ---------------------------------------------------------------- generateLabels
NoFrame == [pc |-> "none", i |-> 0, k |-> 0, labels |-> <<>>, dates |-> <<>>, exc |-> "none"]

\* the frame on entry: dates is the parameter
LabelsCall(ds) == [pc |-> "entry", i |-> 0, k |-> 0, labels |-> <<>>, dates |-> ds, exc |-> "none"]

\* line 79 / 110: the branch on labelsType; i = 0, labels = []
EntryStep(l, np, lt) ==
    IF lt = "boolean"
    THEN [l EXCEPT !.pc = "for", !.i = 0, !.labels = <<>>]
    ELSE [l EXCEPT !.pc = "ret", !.labels = np]

\* mutant: the cursor is set back to 0 for every date
ForStepResetsCursor(l, ds) ==
    IF l.k < Len(ds)
    THEN [l EXCEPT !.k = @ + 1, !.i = 0, !.pc = "while"]
    ELSE [l EXCEPT !.pc = "ret"]

\* line 85: for date in dates (k counts the dates taken so far)
ForStep(l, ds) ==
    IF l.k < Len(ds)
    THEN [l EXCEPT !.k = @ + 1, !.pc = "while"]
    ELSE [l EXCEPT !.pc = "ret"]

\* lines 86-87: one test of the while condition, and its body
WhileStep(l, ds, t) ==
    IF l.i >= Len(t)
    THEN [l EXCEPT !.pc = "raised", !.exc = "IndexError"]
    ELSE IF t[l.i + 1].date # ds[l.k]
         THEN [l EXCEPT !.i = @ + 1]
         ELSE [l EXCEPT !.pc = "try"]

\* mutant: the except branch leaves dates as they are
TryStepKeepsDates(l, t) ==
    IF l.i + 1 >= Len(t)
    THEN [l EXCEPT !.pc = "ret"]
    ELSE LET currPrice == t[l.i + 1].closePrice
             nextPrice == t[l.i + 2].closePrice
         IN  [l EXCEPT !.labels = Append(@, <<nextPrice > currPrice>>), !.pc = "for"]

\* mutant: equal prices count as a rise
TryStepNotStrict(l, t) ==
    IF l.i + 1 >= Len(t)
    THEN [l EXCEPT !.dates = PySlice(@, 0, Len(l.labels)), !.pc = "ret"]
    ELSE LET currPrice == t[l.i + 1].closePrice
             nextPrice == t[l.i + 2].closePrice
         IN  [l EXCEPT !.labels = Append(@, <<nextPrice >= currPrice>>), !.pc = "for"]

\* lines 89-103: the try block, its except branch, and labels.append
TryStep(l, t) ==
    IF l.i + 1 >= Len(t)
    THEN [l EXCEPT !.dates = PySlice(@, 0, Len(l.labels)), !.pc = "ret"]
    ELSE LET currPrice == t[l.i + 1].closePrice
             nextPrice == t[l.i + 2].closePrice
         IN  [l EXCEPT !.labels = Append(@, <<nextPrice > currPrice>>), !.pc = "for"]

LabelStep(l, ds, np, t, lt) ==
    CASE l.pc = "entry" -> EntryStep(l, np, lt)
      [] l.pc = "for" -> ForStep(l, ds)
      [] l.pc = "while" -> WhileStep(l, ds, t)
      [] l.pc = "try" -> TryStep(l, t)
      [] OTHER -> l

RECURSIVE LabelRun(_, _, _, _, _)
LabelRun(l, ds, np, t, lt) ==
    IF l.pc \in {"ret", "raised"} THEN l ELSE LabelRun(LabelStep(l, ds, np, t, lt), ds, np, t, lt)

\* the whole call: the frame it ends in
generateLabels(ds, np, t, lt) == LabelRun(LabelsCall(ds), ds, np, t, lt)

\* lines 79-111 one statement at a time
LabelsEntry ==
    /\ pc = "generateLabels" /\ lab.pc = "entry"
    /\ lab' = EntryStep(lab, nextPrices, labelsType)
    /\ UNCHANGED <<pc, runArgs, ratio, model, properties, dataset, dates, nextPrices,
                   labels, data, file, calls, reported, exc, ticks>>

LabelsFor ==
    /\ pc = "generateLabels" /\ lab.pc = "for"
    /\ lab' = ForStep(lab, dates)
    /\ UNCHANGED <<pc, runArgs, ratio, model, properties, dataset, dates, nextPrices,
                   labels, data, file, calls, reported, exc, ticks>>

LabelsWhile ==
    /\ pc = "generateLabels" /\ lab.pc = "while"
    /\ lab' = WhileStep(lab, dates, ticks)
    /\ UNCHANGED <<pc, runArgs, ratio, model, properties, dataset, dates, nextPrices,
                   labels, data, file, calls, reported, exc, ticks>>

LabelsTry ==
    /\ pc = "generateLabels" /\ lab.pc = "try"
    /\ lab' = TryStep(lab, ticks)
    /\ reported' = IF lab'.pc = "ret" THEN reported \cup {"truncate"} ELSE reported
    /\ UNCHANGED <<pc, runArgs, ratio, model, properties, dataset, dates, nextPrices,
                   labels, data, file, calls, exc, ticks>>

\* line 108 / 111: return (labels, dates), received by the caller's
\* "labels, dates = generateLabels(...)"
LabelsReturn ==
    /\ pc = "generateLabels" /\ lab.pc = "ret"
    /\ pc' = "returned"
    /\ labels' = lab.labels
    /\ dates' = lab.dates
    /\ UNCHANGED <<runArgs, ratio, model, properties, dataset, nextPrices,
                   data, file, calls, reported, exc, ticks, lab>>

\* the IndexError of line 86 leaves generateLabels
LabelsRaise ==
    /\ pc = "generateLabels" /\ lab.pc = "raised"
    /\ pc' = "raised"
    /\ exc' = lab.exc
    /\ UNCHANGED <<runArgs, ratio, model, properties, dataset, dates, nextPrices,
                   labels, data, file, calls, reported, ticks, lab>>

InitLabels ==
    /\ pc = "generateLabels"
    /\ modelName = "matrix" /\ ratioArg = <<"1">> /\ ratio = <<>>
    /\ labelsType \in LabelsTypes
    /\ model = 0 /\ properties = <<>>
    /\ dataset = <<>>
    /\ dates \in DateSeqs
    /\ nextPrices = Targets(Len(dates))
    /\ labels = <<>>
    /\ data = NoData /\ file = <<>> /\ calls = {} /\ reported = {} /\ exc = "none"
    /\ ticks \in TickSeries
    /\ lab = LabelsCall(dates)

NextLabels ==
    \/ LabelsEntry
    \/ LabelsFor
    \/ LabelsWhile
    \/ LabelsTry
    \/ LabelsReturn
    \/ LabelsRaise

SpecLabels == InitLabels /\ [][NextLabels]_vars

\* ---------------------------------------------------------------- run, generateDataset
\* lines 133-134: every token is an integer literal, and the parsed weights
RatioParses(arg) == \A j \in 1..Len(arg) : arg[j] \in DOMAIN IntLiteral
ParsedRatio(arg) == [j \in 1..Len(arg) |-> IntLiteral[arg[j]]]

\* mutant: an unknown name falls back to the first model of the registry
ResolveModelDefaults(name) ==
    LET hits == {j \in 1..Len(models) : models[j] = name}
    IN  IF hits = {} THEN 1 ELSE CHOOSE j \in hits : \A h \in hits : h <= j

\* lines 36-41: the scan of the registry; a later match overwrites an earlier one
ResolveModel(name) ==
    LET hits == {j \in 1..Len(models) : models[j] = name}
    IN  IF hits = {} THEN 0 ELSE CHOOSE j \in hits : \A h \in hits : h <= j

\* mutant: only the last series is compared with the first
LengthMismatchOfLast(props) == props[1] # props[Len(props)]

\* lines 61-62: some loaded series differs in length from the first
LengthMismatch(props) == \E j \in 1..Len(props) : props[1] # props[j]

\* lines 158-160: the lengths of the pieces
SplitLengths(rat, n) == [j \in 1..Len(rat) |-> (rat[j] * n) \div SumSeq(rat)]

\* mutant: the last piece ends at its computed length too
SliceEndComputed(split, j, index, s) == split[j] + index

\* line 167: the slice end of piece j, Len standing for None
SliceEnd(split, j, index, s) == IF j # Len(split) THEN split[j] + index ELSE Len(s)

\* lines 164-174: the pieces, index being the sum of the lengths before piece j
SplitData(split, ds, lb, dt) ==
    [j \in 1..Len(split) |->
        LET index == SumSeq(SubSeq(split, 1, j - 1))
        IN  [dataset |-> PySlice(ds, index, SliceEnd(split, j, index, ds)),
             labels |-> PySlice(lb, index, SliceEnd(split, j, index, lb)),
             dates |-> PySlice(dt, index, SliceEnd(split, j, index, dt))]]

\* lines 115-117: fancy indexing by the permutation
TakeBy(s, p) == [j \in 1..Len(p) |-> s[p[j]]]

Init ==
    /\ pc = "run"
    /\ modelName \in ModelNames
    /\ labelsType \in LabelsTypes
    /\ ratioArg \in RatioArgs
    /\ ratio = <<>>
    /\ model = 0 /\ properties = <<>>
    /\ dataset = <<>> /\ dates = <<>> /\ nextPrices = <<>> /\ labels = <<>>
    /\ data = NoData /\ file = <<>> /\ calls = {} /\ reported = {} /\ exc = "none"
    /\ ticks = <<>>
    /\ lab = NoFrame

\* lines 133-134
ParseRatio ==
    /\ pc = "run"
    /\ RatioParses(ratioArg)
    /\ ratio' = ParsedRatio(ratioArg)
    /\ pc' = "generateDataset"
    /\ UNCHANGED <<runArgs, model, properties, dataset, dates, nextPrices, labels,
                   data, file, calls, reported, exc, ticks, lab>>

\* lines 135-137: ValueError caught, run returns
ParseRatioFails ==
    /\ pc = "run"
    /\ ~RatioParses(ratioArg)
    /\ reported' = reported \cup {"ratio"}
    /\ pc' = "exit"
    /\ UNCHANGED <<runArgs, ratio, model, properties, dataset, dates, nextPrices, labels,
                   data, file, calls, exc, ticks, lab>>

\* lines 36-43
ModelFound ==
    /\ pc = "generateDataset"
    /\ ResolveModel(modelName) # 0
    /\ model' = ResolveModel(modelName)
    /\ pc' = "load"
    /\ UNCHANGED <<runArgs, ratio, properties, dataset, dates, nextPrices, labels,
                   data, file, calls, reported, exc, ticks, lab>>

\* lines 43-45, then line 140: generateDataset returns None and run's
\* unpacking of it raises TypeError
ModelMissing ==
    /\ pc = "generateDataset"
    /\ ResolveModel(modelName) = 0
    /\ reported' = reported \cup {"model"}
    /\ pc' = "raised"
    /\ exc' = "TypeError"
    /\ UNCHANGED <<runArgs, ratio, model, properties, dataset, dates, nextPrices, labels,
                   data, file, calls, ticks, lab>>

\* lines 50-59: the master interval, then one loadData per property name
LoadProperties ==
    /\ pc = "load"
    /\ \E loads \in PropertyLoads :
        /\ \A j \in 1..Len(loads) : loads[j] > 0
        /\ properties' = loads
    /\ calls' = calls \cup {"getMasterInterval", "loadData"}
    /\ pc' = "align"
    /\ UNCHANGED <<runArgs, ratio, model, dataset, dates, nextPrices, labels,
                   data, file, reported, exc, ticks, lab>>

\* line 56: data.iloc[0] of an empty series raises IndexError
LoadEmptyProperty ==
    /\ pc = "load"
    /\ \E loads \in PropertyLoads : \E n \in 1..Len(loads) :
        /\ loads[n] = 0
        /\ \A j \in 1..(n - 1) : loads[j] > 0
        /\ properties' = SubSeq(loads, 1, n - 1)
    /\ calls' = calls \cup {"getMasterInterval", "loadData"}
    /\ pc' = "raised"
    /\ exc' = "IndexError"
    /\ UNCHANGED <<runArgs, ratio, model, dataset, dates, nextPrices, labels,
                   data, file, reported, ticks, lab>>

\* lines 61-62: no mismatch
AlignmentHolds ==
    /\ pc = "align"
    /\ ~LengthMismatch(properties)
    /\ pc' = "generate"
    /\ UNCHANGED <<runArgs, ratio, model, properties, dataset, dates, nextPrices, labels,
                   data, file, calls, reported, exc, ticks, lab>>

\* lines 62-64, then line 140: return None, TypeError in run
AlignmentFails ==
    /\ pc = "align"
    /\ LengthMismatch(properties)
    /\ reported' = reported \cup {"alignment"}
    /\ pc' = "raised"
    /\ exc' = "TypeError"
    /\ UNCHANGED <<runArgs, ratio, model, properties, dataset, dates, nextPrices, labels,
                   data, file, calls, ticks, lab>>

\* line 67: dataset, dates, nextPrices = model.generate(properties)
Generate ==
    /\ pc = "generate"
    /\ \E nf \in 0..MaxLen : dataset' = Features(nf)
    /\ dates' \in ChronologicalDates
    /\ \E nt \in 0..MaxLen : nextPrices' = Targets(nt)
    /\ calls' = calls \cup {"generate"}
    /\ pc' = "labels"
    /\ UNCHANGED <<runArgs, ratio, model, properties, labels,
                   data, file, reported, exc, ticks, lab>>

\* line 69: the label series is loaded and generateLabels is called; it
\* returns (labels, dates), or raises and nothing up the stack catches it
GenerateLabels ==
    /\ pc = "labels"
    /\ \E t \in TickSeries :
        LET r == generateLabels(dates, nextPrices, t, labelsType)
        IN  IF r.pc = "ret"
            THEN /\ labels' = r.labels
                 /\ dates' = r.dates
                 /\ reported' = IF r.k > Len(r.labels)
                                THEN reported \cup {"truncate"} ELSE reported
                 /\ pc' = "reconcile"
                 /\ exc' = exc
            ELSE /\ exc' = r.exc
                 /\ pc' = "raised"
                 /\ UNCHANGED <<labels, dates, reported>>
    /\ calls' = calls \cup {"loadData", "generateLabels"}
    /\ UNCHANGED <<runArgs, ratio, model, properties, dataset, nextPrices,
                   data, file, ticks, lab>>

\* lines 71-75: reconcile and return (dataset, labels, dates) to run;
\* generateDataset's other locals end with it
Reconcile ==
    /\ pc = "reconcile"
    /\ IF Len(dataset) # Len(labels)
       THEN /\ dataset' = PySlice(dataset, 0, Len(labels))
            /\ reported' = reported \cup {"removed"}
       ELSE UNCHANGED <<dataset, reported>>
    /\ model' = 0 /\ properties' = <<>> /\ nextPrices' = <<>>
    /\ pc' = "shuffle"
    /\ UNCHANGED <<runArgs, ratio, dates, labels, data, file, calls, exc, ticks, lab>>

\* line 144: the shuffle argument is false.  The argument is read here and
\* nowhere else, so its two values are the two ways on from this line
NoShuffle ==
    /\ pc = "shuffle"
    /\ pc' = "split"
    /\ UNCHANGED <<runArgs, ratio, model, properties, dataset, dates, nextPrices, labels,
                   data, file, calls, reported, exc, ticks, lab>>

\* mutant: the dates get a permutation of their own
RandomizeIndependently ==
    /\ pc = "shuffle"
    /\ Len(labels) <= Len(dataset) /\ Len(labels) <= Len(dates)
    /\ \E p \in permutation(Len(labels)) : \E q \in permutation(Len(labels)) :
        /\ dataset' = TakeBy(dataset, p)
        /\ labels' = TakeBy(labels, p)
        /\ dates' = TakeBy(dates, q)
    /\ calls' = calls \cup {"randomizeDataset"}
    /\ pc' = "split"
    /\ UNCHANGED <<runArgs, ratio, model, properties, nextPrices,
                   data, file, reported, exc, ticks, lab>>

\* lines 113-118, 146
RandomizeDataset ==
    /\ pc = "shuffle"
    /\ Len(labels) <= Len(dataset) /\ Len(labels) <= Len(dates)
    /\ \E p \in permutation(Len(labels)) :
        /\ dataset' = TakeBy(dataset, p)
        /\ labels' = TakeBy(labels, p)
        /\ dates' = TakeBy(dates, p)
    /\ calls' = calls \cup {"randomizeDataset"}
    /\ pc' = "split"
    /\ UNCHANGED <<runArgs, ratio, model, properties, nextPrices,
                   data, file, reported, exc, ticks, lab>>

\* lines 115, 117: an index of the permutation is out of bounds
RandomizeRaises ==
    /\ pc = "shuffle"
    /\ Len(labels) > Len(dataset) \/ Len(labels) > Len(dates)
    /\ calls' = calls \cup {"randomizeDataset"}
    /\ pc' = "raised"
    /\ exc' = "IndexError"
    /\ UNCHANGED <<runArgs, ratio, model, properties, dataset, dates, nextPrices, labels,
                   data, file, reported, ticks, lab>>

\* lines 149-154: a single weight, one dataset
NoSplit ==
    /\ pc = "split"
    /\ Len(ratio) = 1
    /\ data' = [split |-> FALSE,
                parts |-> <<[dataset |-> dataset, labels |-> labels, dates |-> dates]>>]
    /\ pc' = "save"
    /\ UNCHANGED <<runArgs, ratio, model, properties, dataset, dates, nextPrices, labels,
                   file, calls, reported, exc, ticks, lab>>

\* lines 155-174
Split ==
    /\ pc = "split"
    /\ Len(ratio) # 1
    /\ SumSeq(ratio) # 0
    /\ data' = [split |-> TRUE,
                parts |-> SplitData(SplitLengths(ratio, Len(dataset)), dataset, labels, dates)]
    /\ pc' = "save"
    /\ UNCHANGED <<runArgs, ratio, model, properties, dataset, dates, nextPrices, labels,
                   file, calls, reported, exc, ticks, lab>>

\* line 160: the weights sum to 0; the quotient is nan and int() raises
SplitRaises ==
    /\ pc = "split"
    /\ Len(ratio) # 1
    /\ SumSeq(ratio) = 0
    /\ pc' = "raised"
    /\ exc' = "ValueError"
    /\ UNCHANGED <<runArgs, ratio, model, properties, dataset, dates, nextPrices, labels,
                   data, file, calls, reported, ticks, lab>>

\* lines 120-125, 177-179
SaveDataset ==
    /\ pc = "save"
    /\ file' = <<data>>
    /\ calls' = calls \cup {"saveDataset"}
    /\ pc' = "exit"
    /\ UNCHANGED <<runArgs, ratio, model, properties, dataset, dates, nextPrices, labels,
                   data, reported, exc, ticks, lab>>

\* lines 126-127: the write fails, the exception is caught and reported
SaveDatasetFails ==
    /\ pc = "save"
    /\ reported' = reported \cup {"save"}
    /\ calls' = calls \cup {"saveDataset"}
    /\ pc' = "exit"
    /\ UNCHANGED <<runArgs, ratio, model, properties, dataset, dates, nextPrices, labels,
                   data, file, exc, ticks, lab>>

Next ==
    \/ ParseRatio
    \/ ParseRatioFails
    \/ ModelFound
    \/ ModelMissing
    \/ LoadProperties
    \/ LoadEmptyProperty
    \/ AlignmentHolds
    \/ AlignmentFails
    \/ Generate
    \/ GenerateLabels
    \/ Reconcile
    \/ NoShuffle
    \/ RandomizeDataset
    \/ RandomizeRaises
    \/ NoSplit
    \/ Split
    \/ SplitRaises
    \/ SaveDataset
    \/ SaveDatasetFails

Spec == Init /\ [][Next]_vars

\* ================================================================ claims
\* ---------------------------------------------------------------- generateLabels (SpecLabels)
\* the date the loop is at, and whether the series holds it at or after the cursor
CurrentDate == dates[lab.k]
DateAtOrAfterCursor == \E j \in (lab.i + 1)..Len(ticks) : ticks[j].date = CurrentDate
InBooleanLoop == labelsType = "boolean" /\ pc = "generateLabels" /\ lab.k >= 1

\* C2: in boolean mode a date that does not occur in the price series at or
\* after the cursor ends the call normally, with the dates cut to the labels
\* made so far, and never with an error.
C2_MissingDateReturnsNormally ==
    (InBooleanLoop /\ ~DateAtOrAfterCursor) =>
        /\ lab.exc = "none"
        /\ lab.pc # "raised"
        /\ lab.pc = "ret" => lab.dates = SubSeq(dates, 1, Len(lab.labels))

\* the except branch, and the return that follows it
C3_TruncateStep ==
    (InBooleanLoop /\ lab.pc = "try" /\ lab.i + 1 = Len(ticks)) =>
        /\ lab'.pc = "ret"
        /\ lab'.exc = "none"
        /\ lab'.labels = lab.labels
        /\ Len(lab.labels) = lab.k - 1
        /\ lab'.dates = SubSeq(dates, 1, Len(lab.labels))
C3_ReturnStep ==
    (InBooleanLoop /\ lab.pc = "ret") =>
        /\ pc' = "returned" /\ exc' = "none"
        /\ labels' = lab.labels
        /\ dates' = SubSeq(dates, 1, Len(lab.labels))

\* C3: in boolean mode, when the entry matching a date is the last of the
\* series, that date and all later ones are dropped: the step keeps the labels
\* made so far, cuts the dates to their number and goes to the return, and
\* the call hands back exactly that prefix without an error.
C3_MissingSuccessorDropsTail == [][C3_TruncateStep /\ C3_ReturnStep]_vars

\* the last date was taken from the list but got no label, earlier ones did,
\* and later ones remain
C3_Witness ==
    /\ InBooleanLoop /\ lab.pc = "ret"
    /\ lab.k > Len(lab.labels) /\ Len(lab.labels) >= 1 /\ lab.k < Len(dates)
    /\ lab.i + 1 = Len(ticks)
    /\ Len(lab.dates) = Len(lab.labels)

\* the position of the entry of date d, and the label its successor gives
EntryOf(d) == CHOOSE q \in 1..Len(ticks) : ticks[q].date = d
Rises(q) == ticks[q + 1].closePrice > ticks[q].closePrice
Chronological(ds) == \A a \in 1..Len(ds) : \A b \in 1..Len(ds) : a < b => ds[a] <= ds[b]
AllHaveSuccessor(ds) ==
    \A a \in 1..Len(ds) : \E q \in 1..(Len(ticks) - 1) : ticks[q].date = ds[a]

\* C4: in boolean mode, for chronologically ordered dates that all occur in
\* the price series with a successor, the call does not fail and label k is
\* true exactly when the close price after the entry of dates[k] is strictly
\* greater than that entry's close price.
C4_LabelIsStrictRise ==
    (labelsType = "boolean" /\ pc = "generateLabels"
        /\ Chronological(dates) /\ AllHaveSuccessor(dates)) =>
        /\ lab.pc # "raised"
        /\ lab.pc = "ret" =>
            /\ lab.dates = dates
            /\ Len(lab.labels) = Len(dates)
            /\ \A a \in 1..Len(dates) : lab.labels[a] = <<Rises(EntryOf(dates[a]))>>

\* two dates labelled, one true, and one false on equal prices
C4_Witness ==
    /\ labelsType = "boolean" /\ pc = "generateLabels" /\ lab.pc = "ret"
    /\ Chronological(dates) /\ AllHaveSuccessor(dates)
    /\ Len(dates) >= 2
    /\ \E a \in 1..Len(dates) : lab.labels[a] = <<TRUE>>
    /\ \E a \in 1..Len(dates) :
        /\ lab.labels[a] = <<FALSE>>
        /\ ticks[EntryOf(dates[a]) + 1].closePrice = ticks[EntryOf(dates[a])].closePrice

\* what one step of the call may do to the cursor
C10_CursorSteps ==
    (labelsType = "boolean" /\ pc = "generateLabels") =>
        /\ lab'.i >= lab.i
        /\ lab'.i <= lab.i + 1
        /\ lab.pc = "entry" => lab'.i = 0
        /\ lab.pc = "for" => lab'.i = lab.i
        /\ lab'.i <= Len(ticks)

\* C10: during one boolean-mode call the cursor starts at 0, moves only
\* forward and one entry at a time, and stays where it is when the next date
\* is taken.
C10_CursorMonotonic == [][C10_CursorSteps]_vars

\* a second date that lies before the cursor is sought forward only, and not found
C10_Witness ==
    /\ InBooleanLoop /\ lab.pc = "raised"
    /\ lab.k >= 2 /\ lab.i >= 1
    /\ \E j \in 1..lab.i : ticks[j].date = CurrentDate

\* ---------------------------------------------------------------- run (Spec)
ReturnedFromGenerateDataset == pc = "shuffle"

\* C1: the triple generateDataset returns has one length.
C1_EqualCardinality ==
    ReturnedFromGenerateDataset =>
        /\ Len(dataset) = Len(labels)
        /\ Len(labels) = Len(dates)

RECURSIVE Concat(_)
Concat(ss) == IF ss = <<>> THEN <<>> ELSE ss[1] \o Concat(Tail(ss))
PartsOf(field) == [j \in 1..Len(data.parts) |-> data.parts[j][field]]
AllPositive(rat) == \A j \in 1..Len(rat) : rat[j] > 0
\* n is floor(a / b), for b > 0
IsFloor(n, a, b) == n * b <= a /\ a < (n + 1) * b

\* C5: for k >= 2 positive weights and N features there are k pieces in
\* weight order, piece j < k holds floor(w_j * N / sum(w)) features, the sizes
\* add up to N, the pieces in order give back features, labels and dates, and
\* arrays of one length are cut at the same places.
C5_SplitPartitions ==
    (pc \in {"save", "exit"} /\ data # NoData /\ Len(ratio) >= 2 /\ AllPositive(ratio)) =>
        LET N == Len(dataset)
            k == Len(ratio)
        IN  /\ data.split
            /\ Len(data.parts) = k
            /\ \A j \in 1..(k - 1) :
                IsFloor(Len(data.parts[j].dataset), ratio[j] * N, SumSeq(ratio))
            /\ SumSeq([j \in 1..k |-> Len(data.parts[j].dataset)]) = N
            /\ Concat(PartsOf("dataset")) = dataset
            /\ Concat(PartsOf("labels")) = labels
            /\ Concat(PartsOf("dates")) = dates
            /\ (Len(labels) = N /\ Len(dates) = N) =>
                \A j \in 1..k :
                    /\ Len(data.parts[j].labels) = Len(data.parts[j].dataset)
                    /\ Len(data.parts[j].dates) = Len(data.parts[j].dataset)

\* three rows split 1:1 -- the last piece takes the remainder
C5_Witness ==
    /\ pc = "save" /\ data # NoData /\ Len(ratio) >= 2 /\ AllPositive(ratio)
    /\ Len(dataset) = 3 /\ Len(labels) = 3 /\ Len(dates) = 3
    /\ Len(data.parts[1].dataset) = 1
    /\ Len(data.parts[2].dataset) = 2
    /\ ~IsFloor(2, ratio[2] * 3, SumSeq(ratio))

\* the step that calls randomizeDataset, before and after
C6_ShuffleStep ==
    ("randomizeDataset" \notin calls /\ "randomizeDataset" \in calls' /\ pc' = "split") =>
        LET N == Len(labels)
        IN  /\ Len(dataset') = N /\ Len(labels') = N /\ Len(dates') = N
            /\ \E p \in [1..N -> 1..N] :
                /\ \A q \in 1..N : \E j \in 1..N : p[j] = q
                /\ \A j \in 1..N :
                    /\ dataset'[j] = dataset[p[j]]
                    /\ labels'[j] = labels[p[j]]
                    /\ dates'[j] = dates[p[j]]

\* C6: randomizeDataset moves features, labels and dates by one and the same
\* permutation of the indices of the labels; with arrays of one length the
\* rows are the same rows in another order.
C6_ShuffleIsOnePermutation == [][C6_ShuffleStep]_vars

\* three rows shuffled out of their order
C6_Witness ==
    /\ pc = "split" /\ "randomizeDataset" \in calls
    /\ Len(dataset) = 3 /\ Len(labels) = 3 /\ Len(dates) = 3
    /\ dataset = <<3, 1, 2>>

InRegistry(name) == \E j \in 1..Len(models) : models[j] = name

\* what holds while the name is unknown, and the step of the lookup
C7_UnknownModelState ==
    ~InRegistry(modelName) =>
        /\ calls = {} /\ file = <<>> /\ data = NoData
        /\ dataset = <<>> /\ labels = <<>> /\ dates = <<>>
        /\ pc \in {"run", "generateDataset", "exit", "raised"}
        /\ pc = "raised" => "model" \in reported
C7_UnknownModelStep ==
    (~InRegistry(modelName) /\ pc = "generateDataset") =>
        (pc' = "raised" /\ "model" \in reported')

\* C7: with a model name that is not in the registry the invocation makes no
\* store query, no generation and no file write and produces no dataset; the
\* lookup ends it with the error reported.
C7_UnknownModelAborts == [](C7_UnknownModelState) /\ [][C7_UnknownModelStep]_vars

C7_Witness ==
    /\ ~InRegistry(modelName) /\ pc = "raised" /\ "model" \in reported
    /\ ratio # <<>>

AnyTwoDiffer(props) == \E a, b \in 1..Len(props) : props[a] # props[b]

\* what holds while two series differ, and the step of the check
C8_MismatchState ==
    AnyTwoDiffer(properties) =>
        /\ calls \subseteq {"getMasterInterval", "loadData"}
        /\ file = <<>> /\ data = NoData
        /\ dataset = <<>> /\ labels = <<>> /\ dates = <<>>
        /\ pc \in {"align", "raised"}
C8_MismatchStep ==
    (AnyTwoDiffer(properties) /\ pc = "align") =>
        /\ pc' = "raised"
        /\ "alignment" \in reported'
        /\ properties' = properties

\* C8: when two loaded series differ in length, generate is not invoked, no
\* labels are made, the series stay as loaded and nothing is produced or
\* written; the alignment check ends the invocation with the mismatch reported.
C8_MismatchAborts == [](C8_MismatchState) /\ [][C8_MismatchStep]_vars

\* the first and last series agree, the middle one does not
C8_Witness ==
    /\ pc = "raised" /\ "alignment" \in reported
    /\ Len(properties) = 3
    /\ properties[1] = properties[3] /\ properties[1] # properties[2]

\* every token is an integer literal greater than 0
WellFormed(arg) == \A j \in 1..Len(arg) : arg[j] \in {"1", "2"}

\* C9: with a ratio that is not a sequence of positive integer weights, run
\* reports the error and returns before generateDataset is called.
C9_MalformedRatioAborts ==
    ~WellFormed(ratioArg) =>
        /\ pc \in {"run", "exit"}
        /\ calls = {}
        /\ file = <<>>
        /\ pc = "exit" => "ratio" \in reported

====
